---- MODULE Spec2Model ----
(***************************************************************************)
(* Cost manager REST API (routes/api.js, models/cost.js, models/user.js):  *)
(* POST /api/add, GET /api/report, GET /api/users/:id, GET /api/about over  *)
(* a store of User and Cost documents.                                     *)
(*                                                                         *)
(* JavaScript values are tagged records.  Strings are sequences of         *)
(* one-character strings, so that parseInt, parseFloat, Number, trim and   *)
(* the regular expression /^\d+$/ are computed character by character.     *)
(* Numbers are integers: the numerals of the inputs have no fraction part  *)
(* and no negative exponent.  An instant is a day number (days since       *)
(* 1970-01-01 UTC) with the milliseconds elapsed in that day.              *)
(*                                                                         *)
(* Spec handles one request at a time, each handler as one step.           *)
(* SpecIndex does so for the add handler of routes/index.js, SpecDates for *)
(* bodies that differ in their date, SpecFaults for reports over a store   *)
(* that rejects calls, SpecRepeat for reports sent twice.  SpecSteps runs  *)
(* several add requests together, one step for each await.                 *)
(***************************************************************************)
EXTENDS Integers, Sequences, FiniteSets, TLC

VARIABLES
    users,       \* the User collection
    costs,       \* the Cost collection, in insertion order
    now,         \* the instant Date.now returns
    tzOffset,    \* the server's local time zone, in milliseconds ahead of UTC
    response,    \* the response of the request handled last, until the client reads it
    storeCalls,  \* the calls that request issued to the store
    inflight     \* the add requests handled step by step, by request number

vars == <<users, costs, now, tzOffset, response, storeCalls, inflight>>

(***************************************************************************)
(* JavaScript values                                                       *)
(***************************************************************************)
Undef == [t |-> "undef"]

Null == [t |-> "null"]

NaN == [t |-> "nan"]

Num(n) == [t |-> "num", n |-> n]

Str(s) == [t |-> "str", s |-> s]

CastError == [t |-> "casterror"]

IsNum(v) == v.t = "num"

IsStr(v) == v.t = "str"

(***************************************************************************)
(* Characters and numerals                                                 *)
(***************************************************************************)
DecDigits == <<"0", "1", "2", "3", "4", "5", "6", "7", "8", "9">>

HexDigits == DecDigits \o <<"a", "b", "c", "d", "e", "f">>

IsDigit(c) == \E i \in 1..Len(DecDigits) : DecDigits[i] = c

IsHexDigit(c) == \E i \in 1..Len(HexDigits) : HexDigits[i] = c

DigitVal(c) == (CHOOSE i \in 1..Len(HexDigits) : HexDigits[i] = c) - 1

IsSpace(c) == c = " "

\* The number of leading characters of s that satisfy Ok.
PrefixLen(s, Ok(_)) ==
    CHOOSE n \in 0..Len(s) :
        /\ \A i \in 1..n : Ok(s[i])
        /\ n = Len(s) \/ ~Ok(s[n + 1])

Drop(s, n) == SubSeq(s, n + 1, Len(s))

Take(s, n) == SubSeq(s, 1, n)

StartsWith(s, p) == Len(s) >= Len(p) /\ Take(s, Len(p)) = p

RECURSIVE DigitsValue(_, _)
DigitsValue(s, radix) ==
    IF s = <<>> THEN 0
    ELSE DigitsValue(Take(s, Len(s) - 1), radix) * radix + DigitVal(s[Len(s)])

RECURSIVE Pow10(_)
Pow10(k) == IF k = 0 THEN 1 ELSE 10 * Pow10(k - 1)

\* String.prototype.trim and its two halves.
TrimStart(s) == Drop(s, PrefixLen(s, IsSpace))

TrimEnd(s) ==
    LET n == CHOOSE k \in 0..Len(s) :
                 /\ \A i \in (k + 1)..Len(s) : IsSpace(s[i])
                 /\ k = 0 \/ ~IsSpace(s[k])
    IN  Take(s, n)

Trim(s) == TrimEnd(TrimStart(s))

\* Number.prototype.toString of an integer.
RECURSIVE NatToStr(_)
NatToStr(n) ==
    IF n < 10 THEN <<DecDigits[n + 1]>>
    ELSE NatToStr(n \div 10) \o <<DecDigits[(n % 10) + 1]>>

NumToStr(n) == IF n < 0 THEN <<"-">> \o NatToStr(-n) ELSE NatToStr(n)

\* ToString of a value handed to parseInt, parseFloat or RegExp.test.
ToStr(v) ==
    CASE v.t = "str" -> v.s
      [] v.t = "num" -> NumToStr(v.n)
      [] v.t = "nan" -> <<"N", "a", "N">>
      [] v.t = "null" -> <<"n", "u", "l", "l">>
      [] OTHER -> <<"u", "n", "d", "e", "f", "i", "n", "e", "d">>

IsSign(c) == c = "-" \/ c = "+"

Signed(neg, n) == IF neg THEN Num(-n) ELSE Num(n)

StartsNegative(s) == s # <<>> /\ s[1] = "-"

DropSign(s) == IF s # <<>> /\ IsSign(s[1]) THEN Drop(s, 1) ELSE s

HasHexPrefix(s) == StartsWith(s, <<"0", "x">>) \/ StartsWith(s, <<"0", "X">>)

NoExponent == [len |-> 0, exp |-> 0]

\* The exponent part at the head of s: its length and its value; NoExponent
\* when s does not start with e, an optional + and at least one digit.
ExponentOf(d, skipped, k) ==
    IF k = 0 THEN NoExponent
    ELSE [len |-> skipped + k, exp |-> DigitsValue(Take(d, k), 10)]

ExponentDigits(d, skipped) == ExponentOf(d, skipped, PrefixLen(d, IsDigit))

ExponentPart(s) ==
    IF Len(s) >= 2 /\ (s[1] = "e" \/ s[1] = "E")
    THEN IF s[2] = "+" THEN ExponentDigits(Drop(s, 2), 2)
         ELSE ExponentDigits(Drop(s, 1), 1)
    ELSE NoExponent

\* parseInt(v) with no radix: leading white space, a sign, a 0x prefix, then
\* the longest run of digits; what follows the digits is ignored.
ParseIntRun(neg, s, radix, k) ==
    IF k = 0 THEN NaN ELSE Signed(neg, DigitsValue(Take(s, k), radix))

ParseIntUnsigned(neg, s) ==
    IF HasHexPrefix(s)
    THEN ParseIntRun(neg, Drop(s, 2), 16, PrefixLen(Drop(s, 2), IsHexDigit))
    ELSE ParseIntRun(neg, s, 10, PrefixLen(s, IsDigit))

ParseIntTrimmed(s) == ParseIntUnsigned(StartsNegative(s), DropSign(s))

ParseInt(v) == ParseIntTrimmed(TrimStart(ToStr(v)))

\* A decimal numeral at the head of s: k digits and the exponent part e.
DecimalValue(neg, s, k, e) ==
    Signed(neg, DigitsValue(Take(s, k), 10) * Pow10(e.exp))

\* parseFloat(v): leading white space, a sign, digits and an exponent; what
\* follows the longest numeral is ignored.
ParseFloatRun(neg, s, k) ==
    IF k = 0 THEN NaN ELSE DecimalValue(neg, s, k, ExponentPart(Drop(s, k)))

ParseFloatTrimmed(s) ==
    ParseFloatRun(StartsNegative(s), DropSign(s), PrefixLen(DropSign(s), IsDigit))

ParseFloat(v) == ParseFloatTrimmed(TrimStart(ToStr(v)))

\* Number(s) of a string: the whole trimmed string must be a numeral; the
\* empty string is 0.
HexLiteral(h) ==
    IF h # <<>> /\ PrefixLen(h, IsHexDigit) = Len(h)
    THEN Num(DigitsValue(h, 16)) ELSE NaN

DecimalLiteralOf(neg, s, k, e) ==
    IF k > 0 /\ k + e.len = Len(s) THEN DecimalValue(neg, s, k, e) ELSE NaN

DecimalLiteralRun(neg, s, k) ==
    DecimalLiteralOf(neg, s, k, ExponentPart(Drop(s, k)))

DecimalLiteral(neg, s) == DecimalLiteralRun(neg, s, PrefixLen(s, IsDigit))

NumberOfTrimmed(s) ==
    IF s = <<>> THEN Num(0)
    ELSE IF HasHexPrefix(s) THEN HexLiteral(Drop(s, 2))
    ELSE DecimalLiteral(StartsNegative(s), DropSign(s))

StringToNumber(s) == NumberOfTrimmed(Trim(s))

\* Number(v).
ToNumber(v) ==
    CASE v.t = "str" -> StringToNumber(v.s)
      [] v.t = "num" -> v
      [] v.t = "null" -> Num(0)
      [] OTHER -> NaN

\* /^\d+$/.test(v)
OnlyDigits(s) == s # <<>> /\ \A i \in 1..Len(s) : IsDigit(s[i])

AllDigits(v) == OnlyDigits(ToStr(v))

(***************************************************************************)
(* Calendar and Date                                                       *)
(***************************************************************************)
MsPerDay == 24 * 60 * 60 * 1000

\* An instant: day number since 1970-01-01 UTC and milliseconds in the day.
Instant(day, ms) == [day |-> day, ms |-> ms]

InvalidDate == [invalid |-> TRUE]

IsValidDate(d) == DOMAIN d = {"day", "ms"}

AddMs(t, delta) ==
    Instant(t.day + ((t.ms + delta) \div MsPerDay), (t.ms + delta) % MsPerDay)

Before(a, b) == a.day < b.day \/ (a.day = b.day /\ a.ms < b.ms)

AtOrBefore(a, b) == a = b \/ Before(a, b)

IsLeapYear(y) == (y % 4 = 0 /\ y % 100 # 0) \/ y % 400 = 0

\* Days in month m (1..12) of year y.
DaysInMonth(y, m) ==
    CASE m = 2 -> IF IsLeapYear(y) THEN 29 ELSE 28
      [] m \in {4, 6, 9, 11} -> 30
      [] OTHER -> 31

\* ECMAScript DayFromYear: the day number of January 1st of year y.
DayFromYear(y) ==
    365 * (y - 1970) + ((y - 1969) \div 4) - ((y - 1901) \div 100)
        + ((y - 1601) \div 400)

RECURSIVE DaysBeforeMonth(_, _)
DaysBeforeMonth(y, m) ==
    IF m = 1 THEN 0 ELSE DaysBeforeMonth(y, m - 1) + DaysInMonth(y, m - 1)

\* ECMAScript MakeDay(year, month, date), month counted from 0 and allowed
\* to run past 11, date allowed to be 0 or to run past the month.
MakeDayInYear(ym, mn, date) ==
    DayFromYear(ym) + DaysBeforeMonth(ym, mn + 1) + date - 1

MakeDay(year, month, date) ==
    MakeDayInYear(year + (month \div 12), month % 12, date)

\* TimeClip: a day number beyond 100,000,000 days of the epoch is no Date.
MaxDay == 100000000

TimeClip(day, time) ==
    IF day > MaxDay \/ day < -MaxDay THEN InvalidDate ELSE Instant(day, time)

\* Date.UTC(year, month, date, hours, minutes, seconds, ms): a year from 0
\* to 99 stands for 1900 + year.
FullYear(year) == IF 0 <= year /\ year <= 99 THEN 1900 + year ELSE year

MakeTime(hours, minutes, seconds, ms) ==
    ((hours * 60 + minutes) * 60 + seconds) * 1000 + ms

DateUTC(year, month, date, hours, minutes, seconds, ms) ==
    TimeClip(MakeDay(FullYear(year), month, date),
             MakeTime(hours, minutes, seconds, ms))

\* ECMAScript YearFromTime, MonthFromTime (1..12 here) and DateFromTime of a
\* day number.
YearBetween(day, a, b) ==
    CHOOSE y \in ((IF a < b THEN a ELSE b) - 1)..((IF a < b THEN b ELSE a) + 1) :
        DayFromYear(y) <= day /\ day < DayFromYear(y + 1)

YearFromDay(day) == YearBetween(day, 1970 + (day \div 365), 1970 + (day \div 366))

\* The month of year y that holds the day n days after January 1st.
MonthInYear(y, n) ==
    CHOOSE m \in 1..12 :
        /\ DaysBeforeMonth(y, m) <= n
        /\ n < DaysBeforeMonth(y, m) + DaysInMonth(y, m)

DateInYear(y, n) == n - DaysBeforeMonth(y, MonthInYear(y, n)) + 1

DayWithinYear(y, day) == DateInYear(y, day - DayFromYear(y))

MonthFromDay(day) == MonthInYear(YearFromDay(day), day - DayFromYear(YearFromDay(day)))

DateFromDay(day) == DayWithinYear(YearFromDay(day), day)

\* Date.prototype.getDate: the day of the month in the server's local time,
\* which is offset milliseconds ahead of UTC.
GetDate(d, offset) == DateFromDay(AddMs(d, offset).day)

\* Date.prototype.getUTCDate
GetUTCDate(d) == DateFromDay(d.day)

\* The digits s[a..b] as a number, or -1 when one of them is no digit.
Field(s, a, b) ==
    IF \A i \in a..b : IsDigit(s[i]) THEN DigitsValue(SubSeq(s, a, b), 10) ELSE -1

\* new Date(string) for the ISO forms YYYY-MM-DD (UTC midnight),
\* YYYY-MM-DDTHH:mm:ss.sssZ (UTC) and YYYY-MM-DDTHH:mm:ss.sss (local time);
\* an element out of range, or any other text of the input alphabet, gives an
\* invalid Date.
CalendarDate(y, m, d) ==
    IF y >= 0 /\ m >= 1 /\ m <= 12 /\ d >= 1 /\ d <= DaysInMonth(y, m)
    THEN Instant(MakeDay(y, m - 1, d), 0)
    ELSE InvalidDate

IsoDate(s) ==
    IF s[5] = "-" /\ s[8] = "-"
    THEN CalendarDate(Field(s, 1, 4), Field(s, 6, 7), Field(s, 9, 10))
    ELSE InvalidDate

\* The milliseconds of the time of day, or -1.
TimeOfDay(hh, mi, ss, ms) ==
    IF /\ hh >= 0 /\ hh <= 23 /\ mi >= 0 /\ mi <= 59
       /\ ss >= 0 /\ ss <= 59 /\ ms >= 0
    THEN MakeTime(hh, mi, ss, ms)
    ELSE -1

IsoTime(s) ==
    IF /\ s[11] = "T" /\ s[14] = ":" /\ s[17] = ":" /\ s[20] = "."
       /\ Len(s) = 24 => s[24] = "Z"
    THEN TimeOfDay(Field(s, 12, 13), Field(s, 15, 16), Field(s, 18, 19),
                   Field(s, 21, 23))
    ELSE -1

IsoDateTime(date, time, utc, offset) ==
    IF ~IsValidDate(date) \/ time < 0 THEN InvalidDate
    ELSE IF utc THEN AddMs(date, time)
    ELSE AddMs(date, time - offset)

ParseDate(s, offset) ==
    IF Len(s) = 10 THEN IsoDate(s)
    ELSE IF Len(s) \in {23, 24}
    THEN IsoDateTime(IsoDate(s), IsoTime(s), Len(s) = 24, offset)
    ELSE InvalidDate

(***************************************************************************)
(* Schemas (models/user.js, models/cost.js)                                *)
(***************************************************************************)
food == <<"f", "o", "o", "d">>

health == <<"h", "e", "a", "l", "t", "h">>

housing == <<"h", "o", "u", "s", "i", "n", "g">>

sport == <<"s", "p", "o", "r", "t">>

education == <<"e", "d", "u", "c", "a", "t", "i", "o", "n">>

\* costSchema.category.enum
CategoryEnum == <<food, health, housing, sport, education>>

\* costSchema.userid.min
UseridMin == 1

\* A Number path: null and undefined pass through, the empty string is null,
\* another string is Number(string), and NaN is a cast error.
NotNaN(n) == IF n = NaN THEN CastError ELSE n

CastNumber(v) ==
    CASE v.t \in {"undef", "null"} -> v
      [] v.t = "str" -> IF v.s = <<>> THEN Null ELSE NotNaN(StringToNumber(v.s))
      [] v.t = "num" -> v
      [] OTHER -> CastError

\* A String path with trim: true; a number is cast to its text.
CastTrimmedString(v) ==
    CASE v.t = "str" -> Str(Trim(v.s))
      [] v.t = "num" -> Str(NumToStr(v.n))
      [] OTHER -> v

\* A Date path: null, undefined and the empty string are null, a number is
\* milliseconds since the epoch, a string is parsed; an invalid Date is a
\* cast error.
ValidDate(d) == IF IsValidDate(d) THEN d ELSE CastError

CastDate(v, offset) ==
    CASE v.t \in {"undef", "null"} -> Null
      [] v.t = "num" -> AddMs(Instant(0, 0), v.n)
      [] v.t = "str" ->
            IF v.s = <<>> THEN Null ELSE ValidDate(ParseDate(v.s, offset))
      [] OTHER -> CastError

IsCastError(v) == "t" \in DOMAIN v /\ v.t = "casterror"

\* new Cost(fields) with a default date of the day's start.
NewCostDatedAtMidnight(fields, clock, offset) ==
    [description |-> CastTrimmedString(fields.description),
     category |-> fields.category,
     userid |-> CastNumber(fields.userid),
     sum |-> CastNumber(fields.sum),
     date |-> IF fields.date = Undef THEN Instant(clock.day, 0)
              ELSE CastDate(fields.date, offset)]

\* new Cost(fields): every path cast by its schema type, date defaulting to
\* Date.now when the field is undefined.
NewCost(fields, clock, offset) ==
    [description |-> CastTrimmedString(fields.description),
     category |-> fields.category,
     userid |-> CastNumber(fields.userid),
     sum |-> CastNumber(fields.sum),
     date |-> IF fields.date = Undef THEN clock ELSE CastDate(fields.date, offset)]

\* A category path without the enum validator.
AnyCategory(v) == v.t = "str"

InEnum(v) == v.t = "str" /\ \E i \in 1..Len(CategoryEnum) : CategoryEnum[i] = v.s

\* The validators of a schema whose sum has a minimum above zero.
ValidationErrorsPositiveSum(doc) ==
    {p \in {"description"} :
        ~(doc.description.t = "str" /\ doc.description.s # <<>>)}
    \cup {p \in {"category"} : ~InEnum(doc.category)}
    \cup {p \in {"userid"} :
        ~(doc.userid.t = "num" /\ doc.userid.n >= UseridMin)}
    \cup {p \in {"sum"} : ~(doc.sum.t = "num" /\ doc.sum.n > 0)}
    \cup {p \in {"date"} : IsCastError(doc.date)}

\* The paths of a Cost document that fail validation on save.
ValidationErrors(doc) ==
    {p \in {"description"} :
        ~(doc.description.t = "str" /\ doc.description.s # <<>>)}
    \cup {p \in {"category"} : ~InEnum(doc.category)}
    \cup {p \in {"userid"} :
        ~(doc.userid.t = "num" /\ doc.userid.n >= UseridMin)}
    \cup {p \in {"sum"} : doc.sum.t # "num"}
    \cup {p \in {"date"} : IsCastError(doc.date)}

\* User.findOne({ id: q }) for a cast value q.
FindUser(us, q) == {u \in us : q.t = "num" /\ u.id = q.n}

(***************************************************************************)
(* Responses                                                               *)
(***************************************************************************)
NoResponse == [op |-> "none"]

\* res.status(status).json({ error, message }); paths are the schema paths
\* the message names.
Failure(op, req, status, error, paths) ==
    [op |-> op, req |-> req, status |-> status, error |-> error,
     paths |-> paths, data |-> Null]

Success(op, req, status, data) ==
    [op |-> op, req |-> req, status |-> status, error |-> "",
     paths |-> {}, data |-> data]

\* A call issued to the store, with its filter or document.
StoreCall(call, arg) == [call |-> call, arg |-> arg]

\* What a handler did: its response, the calls it issued to the store and
\* the documents it saved.
Outcome(res, calls, saved) == [res |-> res, calls |-> calls, saved |-> saved]

(***************************************************************************)
(* POST /api/add (routes/api.js)                                           *)
(***************************************************************************)
\* await cost.save() and the 201 response, or the catch block.
AddSave(body, q, cost, errs) ==
    IF errs # {}
    THEN Outcome(Failure("add", body, 400, "Failed To Add Cost Item", errs),
                 <<StoreCall("User.findOne", q)>>, <<>>)
    ELSE Outcome(Success("add", body, 201, cost),
                 <<StoreCall("User.findOne", q), StoreCall("Cost.save", cost)>>,
                 <<cost>>)

AddValidate(body, q, cost) == AddSave(body, q, cost, ValidationErrors(cost))

\* const userExists = await User.findOne({ id: userid }), then new Cost(...).
AddLookup(us, body, q, clock, offset) ==
    IF IsCastError(q)
    THEN Outcome(Failure("add", body, 400, "Failed To Add Cost Item", {"id"}),
                 <<>>, <<>>)
    ELSE IF FindUser(us, q) = {}
    THEN Outcome(Failure("add", body, 404, "User Not Found", {}),
                 <<StoreCall("User.findOne", q)>>, <<>>)
    ELSE AddValidate(body, q,
             NewCost([description |-> body.description,
                      category |-> body.category,
                      userid |-> ParseInt(body.userid),
                      sum |-> ParseFloat(body.sum),
                      date |-> body.date], clock, offset))

\* The handler on body in a store of users us.
AddOutcome(us, body, clock, offset) ==
    AddLookup(us, body, CastNumber(body.userid), clock, offset)

(***************************************************************************)
(* GET /api/report (routes/api.js)                                         *)
(***************************************************************************)
\* The buckets in the order of the schema's enum.
categoriesOfSchema == CategoryEnum

categories == <<food, education, health, housing, sport>>

startDate(yearNum, monthNum) == DateUTC(yearNum, monthNum - 1, 1, 0, 0, 0, 0)

endDate(yearNum, monthNum) == DateUTC(yearNum, monthNum, 0, 23, 59, 59, 999)

\* { userid: numericId, date: { $gte: start, $lt: end } }
MatchesBeforeEnd(cost, numericId, start, end) ==
    /\ cost.userid = Num(numericId)
    /\ cost.date # Null
    /\ AtOrBefore(start, cost.date)
    /\ Before(cost.date, end)

\* { userid: numericId, date: { $gte: start, $lte: end } }
Matches(cost, numericId, start, end) ==
    /\ cost.userid = Num(numericId)
    /\ cost.date # Null
    /\ AtOrBefore(start, cost.date)
    /\ AtOrBefore(cost.date, end)

\* Cost.find(...).lean(): the matching documents in store order.
RECURSIVE FindCosts(_, _, _, _)
FindCosts(cs, numericId, start, end) ==
    IF cs = <<>> THEN <<>>
    ELSE (IF Matches(Head(cs), numericId, start, end) THEN <<Head(cs)>> ELSE <<>>)
         \o FindCosts(Tail(cs), numericId, start, end)

ReportItem(cost, offset) ==
    [sum |-> cost.sum.n, description |-> cost.description.s,
     day |-> GetDate(cost.date, offset)]

\* costs.map(...) without the filter
RECURSIVE BucketOfAll(_, _, _)
BucketOfAll(found, category, offset) ==
    IF found = <<>> THEN <<>>
    ELSE <<ReportItem(Head(found), offset)>>
         \o BucketOfAll(Tail(found), category, offset)

\* The filter, with each item put in front of the ones before it.
RECURSIVE BucketNewestFirst(_, _, _)
BucketNewestFirst(found, category, offset) ==
    IF found = <<>> THEN <<>>
    ELSE BucketNewestFirst(Tail(found), category, offset)
         \o (IF Head(found).category = Str(category)
             THEN <<ReportItem(Head(found), offset)>> ELSE <<>>)

\* costs.filter(cost => cost.category === category).map(...)
RECURSIVE Bucket(_, _, _)
Bucket(found, category, offset) ==
    IF found = <<>> THEN <<>>
    ELSE (IF Head(found).category = Str(category)
          THEN <<ReportItem(Head(found), offset)>> ELSE <<>>)
         \o Bucket(Tail(found), category, offset)

ReportBody(found, numericId, yearNum, monthNum, offset) ==
    [userid |-> numericId, year |-> yearNum, month |-> monthNum,
     costs |-> [i \in 1..Len(categories) |->
                   [key |-> categories[i],
                    items |-> Bucket(found, categories[i], offset)]]]

ReportFailure(query, status, error, paths, calls) ==
    Outcome(Failure("report", query, status, error, paths), calls, <<>>)

\* Cost.find over the month window, then the buckets.
ReportFind(cs, query, numericId, yearNum, monthNum, start, end, offset) ==
    IF ~IsValidDate(start) \/ ~IsValidDate(end)
    THEN ReportFailure(query, 500, "Failed To Generate Report", {"date"},
                       <<StoreCall("User.findOne", Num(numericId))>>)
    ELSE Outcome(Success("report", query, 200,
                     ReportBody(FindCosts(cs, numericId, start, end),
                                numericId, yearNum, monthNum, offset)),
                 <<StoreCall("User.findOne", Num(numericId)),
                   StoreCall("Cost.find",
                       [userid |-> numericId, gte |-> start, lte |-> end])>>,
                 <<>>)

\* The range check with its upper end one too far: monthNum > 13.
ReportMonthUpTo13(cs, query, numericId, yearNum, monthNum, offset) ==
    IF monthNum < 1 \/ monthNum > 13
    THEN ReportFailure(query, 400, "Invalid Month", {},
                       <<StoreCall("User.findOne", Num(numericId))>>)
    ELSE ReportFind(cs, query, numericId, yearNum, monthNum,
                    startDate(yearNum, monthNum), endDate(yearNum, monthNum),
                    offset)

\* if (monthNum < 1 || monthNum > 12), then the window and the query.
ReportMonth(cs, query, numericId, yearNum, monthNum, offset) ==
    IF monthNum < 1 \/ monthNum > 12
    THEN ReportFailure(query, 400, "Invalid Month", {},
                       <<StoreCall("User.findOne", Num(numericId))>>)
    ELSE ReportFind(cs, query, numericId, yearNum, monthNum,
                    startDate(yearNum, monthNum), endDate(yearNum, monthNum),
                    offset)

\* The month's format checked before the year's.
ReportUserMonthFirst(us, cs, query, numericId, offset) ==
    IF FindUser(us, numericId) = {}
    THEN ReportFailure(query, 404, "User Not Found", {},
                       <<StoreCall("User.findOne", numericId)>>)
    ELSE IF ~AllDigits(query.month)
    THEN ReportFailure(query, 400, "Invalid Month Format", {},
                       <<StoreCall("User.findOne", numericId)>>)
    ELSE IF ~AllDigits(query.year)
    THEN ReportFailure(query, 400, "Invalid Year Format", {},
                       <<StoreCall("User.findOne", numericId)>>)
    ELSE ReportMonth(cs, query, numericId.n, ParseInt(query.year).n,
                     ParseInt(query.month).n, offset)

\* const user = await User.findOne({ id: numericId }), then the checks of
\* year and month.
ReportUser(us, cs, query, numericId, offset) ==
    IF FindUser(us, numericId) = {}
    THEN ReportFailure(query, 404, "User Not Found", {},
                       <<StoreCall("User.findOne", numericId)>>)
    ELSE IF ~AllDigits(query.year)
    THEN ReportFailure(query, 400, "Invalid Year Format", {},
                       <<StoreCall("User.findOne", numericId)>>)
    ELSE IF ~AllDigits(query.month)
    THEN ReportFailure(query, 400, "Invalid Month Format", {},
                       <<StoreCall("User.findOne", numericId)>>)
    ELSE ReportMonth(cs, query, numericId.n, ParseInt(query.year).n,
                     ParseInt(query.month).n, offset)

\* The handler without its check of id: parseInt(id) goes to the lookup,
\* where NaN is a cast error that the catch block answers with 500.
ReportOutcomeUnchecked(us, cs, query, offset) ==
    IF ParseInt(query.id) = NaN
    THEN ReportFailure(query, 500, "Failed To Generate Report", {"id"}, <<>>)
    ELSE ReportUser(us, cs, query, ParseInt(query.id), offset)

\* The handler with the check !id alone, without the test of the digits.
ReportOutcomeIfPresent(us, cs, query, offset) ==
    IF query.id = Undef \/ query.id = Str(<<>>)
    THEN ReportFailure(query, 400, "Invalid User ID", {}, <<>>)
    ELSE ReportOutcomeUnchecked(us, cs, query, offset)

\* if (!id || !/^\d+$/.test(id)), then const numericId = parseInt(id).
ReportOutcome(us, cs, query, offset) ==
    IF query.id = Undef \/ query.id = Str(<<>>) \/ ~AllDigits(query.id)
    THEN ReportFailure(query, 400, "Invalid User ID", {}, <<>>)
    ELSE ReportUser(us, cs, query, ParseInt(query.id), offset)

(***************************************************************************)
(* GET /api/users/:id (routes/api.js)                                      *)
(***************************************************************************)
\* { $sum: '$sum' } over every document, the $match stage left out
RECURSIVE SumOfAll(_, _)
SumOfAll(cs, id) ==
    IF cs = <<>> THEN 0 ELSE Head(cs).sum.n + SumOfAll(Tail(cs), id)

\* { $sum: '$sum' } over the documents of { $match: { userid: id } }
RECURSIVE SumOf(_, _)
SumOf(cs, id) ==
    IF cs = <<>> THEN 0
    ELSE (IF Head(cs).userid = Num(id) THEN Head(cs).sum.n ELSE 0)
         + SumOf(Tail(cs), id)

\* [{ $match: { userid: id } }, { $group: { _id: null, total: { $sum } } }]:
\* one group when a document matches, none otherwise.
Aggregate(cs, id) ==
    IF \E i \in 1..Len(cs) : cs[i].userid = Num(id)
    THEN <<[total |-> SumOf(cs, id)]>>
    ELSE <<>>

UserData(user, total) ==
    [id |-> user.id, first_name |-> user.first_name,
     last_name |-> user.last_name,
     total |-> IF Len(total) > 0 THEN total[1].total ELSE 0]

UserFound(cs, param, id, found) ==
    IF found = {}
    THEN Outcome(Failure("user", param, 404, "User Not Found", {}),
                 <<StoreCall("User.findOne", id)>>, <<>>)
    ELSE Outcome(Success("user", param, 200,
                     UserData(CHOOSE u \in found : TRUE, Aggregate(cs, id.n))),
                 <<StoreCall("User.findOne", id),
                   StoreCall("Cost.aggregate", id)>>,
                 <<>>)

UserLookup(us, cs, param, id) ==
    IF IsCastError(CastNumber(id))
    THEN Outcome(Failure("user", param, 400,
                         "Failed To Retrieve User Information", {"id"}),
                 <<>>, <<>>)
    ELSE UserFound(cs, param, id, FindUser(us, id))

\* const id = Number(req.params.id)
UserOutcome(us, cs, param) == UserLookup(us, cs, param, ToNumber(param))

(***************************************************************************)
(* GET /api/about (routes/api.js)                                          *)
(***************************************************************************)
team == <<[first_name |-> "Daniel", last_name |-> "Agranovsky"],
          [first_name |-> "Nikol", last_name |-> "Melamed"]>>

(***************************************************************************)
(* POST /add, the variant of routes/index.js                               *)
(***************************************************************************)
validCategories == <<food, health, housing, sport, education>>

DescriptionMax == 100

UpperHex == <<"A", "B", "C", "D", "E", "F">>

LowerHex(c) ==
    IF \E i \in 1..Len(UpperHex) : UpperHex[i] = c
    THEN HexDigits[10 + CHOOSE i \in 1..Len(UpperHex) : UpperHex[i] = c]
    ELSE c

IsObjectIdChar(c) == IsHexDigit(LowerHex(c))

ObjectId(hex) == [t |-> "oid", hex |-> hex]

\* An ObjectId path: a string of 24 hexadecimal digits is the id it spells
\* (in lower case), any other text is a cast error.  (A string of 12
\* characters, which some driver versions read as 12 bytes, is no numeral
\* within the model's integers and occurs in no input.)
ObjectIdOf(s) ==
    IF Len(s) = 24 /\ PrefixLen(s, IsObjectIdChar) = 24
    THEN ObjectId([i \in 1..24 |-> LowerHex(s[i])])
    ELSE CastError

CastObjectId(v) ==
    CASE v.t \in {"undef", "null"} -> v
      [] v.t \in {"str", "num"} -> ObjectIdOf(ToStr(v))
      [] OTHER -> CastError

\* User.findById(oid)
FindById(us, oid) == {u \in us : oid.t = "oid" /\ u._id = oid.hex}

\* !Number.isInteger(Number(userid)) || Number(userid) <= 0
InvalidUserId(n) == ~(IsNum(n) /\ n.n > 0)

\* !validCategories.includes(category)
InvalidCategory(category) ==
    ~(category.t = "str"
      /\ \E i \in 1..Len(validCategories) : validCategories[i] = category.s)

\* !description || typeof description !== 'string'
\*     || description.trim().length === 0
EmptyDescription(description) ==
    ~(description.t = "str" /\ Trim(description.s) # <<>>)

VariantFailure(body, status, error, calls) ==
    Outcome(Failure("add", body, status, error, {}), calls, <<>>)

\* await cost.save(); then the 201 response, whose body reads the undeclared
\* name user: building it throws a ReferenceError, and the catch block
\* answers 400 after the document was saved.
VariantSave(body, oid, cost, errs) ==
    IF errs # {}
    THEN Outcome(Failure("add", body, 400, "Failed To Add Cost Item", errs),
                 <<StoreCall("User.findById", oid)>>, <<>>)
    ELSE Outcome(Failure("add", body, 400, "Failed To Add Cost Item", {}),
                 <<StoreCall("User.findById", oid), StoreCall("Cost.save", cost)>>,
                 <<cost>>)

VariantValidate(body, oid, cost) ==
    VariantSave(body, oid, cost, ValidationErrors(cost))

\* The checks of category and description, then new Cost(...) dated
\* new Date(), the clock.
VariantChecks(body, oid, clock, offset) ==
    IF InvalidCategory(body.category)
    THEN VariantFailure(body, 400, "Invalid Category",
                        <<StoreCall("User.findById", oid)>>)
    ELSE IF EmptyDescription(body.description)
    THEN VariantFailure(body, 400, "Invalid Description",
                        <<StoreCall("User.findById", oid)>>)
    ELSE IF Len(body.description.s) > DescriptionMax
    THEN VariantFailure(body, 400, "Invalid Description",
                        <<StoreCall("User.findById", oid)>>)
    ELSE VariantValidate(body, oid,
             NewCost([description |-> Str(Trim(body.description.s)),
                      category |-> body.category,
                      userid |-> ParseInt(body.userid),
                      sum |-> ParseFloat(body.sum),
                      date |-> Undef], clock, offset))

\* const userExists = await User.findById(userid)
VariantLookup(us, body, oid, clock, offset) ==
    IF IsCastError(oid)
    THEN Outcome(Failure("add", body, 400, "Failed To Add Cost Item", {"_id"}),
                 <<>>, <<>>)
    ELSE IF FindById(us, oid) = {}
    THEN VariantFailure(body, 404, "User Not Found",
                        <<StoreCall("User.findById", oid)>>)
    ELSE VariantChecks(body, oid, clock, offset)

\* The handler on body in a store of users us.
VariantOutcome(us, body, clock, offset) ==
    IF InvalidUserId(ToNumber(body.userid))
    THEN VariantFailure(body, 400, "Invalid user ID", <<>>)
    ELSE VariantLookup(us, body, CastObjectId(body.userid), clock, offset)

(***************************************************************************)
(* Bounds and inputs                                                       *)
(***************************************************************************)
\* The Cost collection holds at most MaxCosts documents.
MaxCosts == 2

\* The clock advances at most MaxTicks milliseconds.
MaxTicks == 1

\* The _id whose 24 digits end in last.
IdEnding(last) ==
    [i \in 1..24 |-> IF i <= 24 - Len(last) THEN "0" ELSE last[i - 24 + Len(last)]]

\* The users of the store.
Users == {[_id |-> IdEnding(<<"2">>), id |-> 2,
           first_name |-> "Test", last_name |-> "User"],
          [_id |-> IdEnding(<<"1", "0">>), id |-> 10,
           first_name |-> "John", last_name |-> "Doe"]}

\* The server starts at 2024-02-29T23:59:59.999Z, the last millisecond of
\* February.
ClockStart == Instant(MakeDay(2024, 1, 29), MsPerDay - 1)

\* One hour behind UTC, UTC, one hour ahead.
TzOffsets == {-(60 * 60 * 1000), 0, 60 * 60 * 1000}

Feb01 == <<"2", "0", "2", "4", "-", "0", "2", "-", "0", "1">>

Jan31End == <<"2", "0", "2", "4", "-", "0", "1", "-", "3", "1", "T",
              "2", "3", ":", "5", "9", ":", "5", "9", ".", "9", "9", "9", "Z">>

toys == <<"t", "o", "y", "s">>

Body(userid, category, description, sum, date) ==
    [userid |-> userid, category |-> category, description |-> description,
     sum |-> sum, date |-> date]

\* userid: existing users as number and text, a numeral in exponent form, an
\* unknown user, text that is no number, a missing field.
UseridInputs ==
    {Num(2), Str(<<"2">>), Num(10), Str(<<"1", "e", "1">>), Num(3),
     Str(<<"a", "b">>), Undef}

UnknownUserids == {Num(3), Str(<<"a", "b">>), Undef}

\* A description of one character more than the variant allows.
LongDescription == [i \in 1..DescriptionMax + 1 |-> "a"]

\* Well-formed bodies.
GoodBodies ==
    {Body(u, Str(food), Str(<<"a">>), Num(5), Str(Feb01)) : u \in UseridInputs}
    \cup {Body(Num(2), Str(sport), Str(<<" ", "a", " ">>), Num(-5), Undef),
          Body(Num(2), Str(food), Str(<<"a">>), Num(0), Str(Jan31End)),
          Body(Num(2), Str(food), Str(LongDescription), Num(5), Str(Feb01))}

\* A well-formed body with one field replaced.
OneFieldOff ==
    {Body(u, c, Str(<<"a">>), Num(5), Str(Feb01)) :
        u \in UseridInputs, c \in {Str(toys), Str(<<>>), Undef}}
    \cup {Body(u, Str(food), d, Num(5), Str(Feb01)) :
        u \in UseridInputs, d \in {Str(<<" ">>), Undef}}
    \cup {Body(u, Str(food), Str(<<"a">>), s, Str(Feb01)) :
        u \in UseridInputs,
        s \in {Str(<<"5", "a", "b">>), Str(<<"a", "b">>), Undef}}
    \cup {Body(u, Str(food), Str(<<"a">>), Num(5), Str(<<"a", "b">>)) :
        u \in UseridInputs}

\* For a userid that names no user: the good body, each other field wrong in
\* turn or omitted, and every other field wrong at once.
UnknownUserBodies ==
    {Body(u, Str(food), Str(<<"a">>), Num(5), t) :
        u \in UnknownUserids, t \in {Str(Feb01), Str(<<"a", "b">>), Undef}}
    \cup {Body(u, Str(toys), Str(<<"a">>), Num(5), Str(Feb01)) :
            u \in UnknownUserids}
    \cup {Body(u, Str(food), Str(<<" ">>), Num(5), Str(Feb01)) :
            u \in UnknownUserids}
    \cup {Body(u, Str(food), Str(<<"a">>), Str(<<"a", "b">>), Str(Feb01)) :
            u \in UnknownUserids}
    \cup {Body(u, Str(toys), Str(<<" ">>), Str(<<"a", "b">>), Str(<<"a", "b">>)) :
            u \in UnknownUserids}

AddBodies == GoodBodies \cup OneFieldOff \cup UnknownUserBodies

Query(id, year, month) == [id |-> id, year |-> year, month |-> month]

IdInputs ==
    {Str(<<"2">>), Str(<<"1", "0">>), Str(<<"1">>), Str(<<"3">>),
     Str(<<"a", "b">>), Undef}

YearInputs ==
    {Str(<<"2", "0", "2", "4">>), Str(<<"2", "0", "2", "3">>), Str(<<"2", "4">>),
     Str(<<"3", "0", "0", "0", "0", "0">>), Str(<<"2", "a">>), Undef}

MonthInputs ==
    {Str(<<"1">>), Str(<<"2">>), Str(<<"3">>), Str(<<"4">>), Str(<<"1", "2">>),
     Str(<<"1", "3">>), Str(<<"0">>), Str(<<"a", "b">>), Undef}

ReportQueries ==
    {Query(id, Str(<<"2", "0", "2", "4">>), m) :
        id \in IdInputs, m \in {Str(<<"1">>), Str(<<"2">>), Str(<<"3">>)}}
    \cup {Query(Str(<<"2">>), y, m) : y \in YearInputs, m \in MonthInputs}
    \cup {Query(id, y, m) :
        id \in {Str(<<"3">>), Str(<<"a", "b">>), Undef},
        y \in {Str(<<"2", "a">>), Undef},
        m \in {Str(<<"1", "3">>), Str(<<"a", "b">>)}}

\* The :id segment of the path is a non-empty string.
UserParams ==
    {Str(<<"2">>), Str(<<"1", "0">>), Str(<<"1">>), Str(<<"3">>),
     Str(<<"1", "e", "1">>), Str(<<"a", "b">>)}

\* The bodies sent to the variant: one good body for every userid, and
\* for user 2 every category, description and sum.
VariantUserids ==
    {Str(IdEnding(<<"2">>)), Str(IdEnding(<<"1", "0">>)), Str(IdEnding(<<"3">>)),
     Str(IdEnding(<<"0">>)), Str(IdEnding(<<"A">>)),
     Str(<<"2">>), Num(2), Str(<<"a", "b">>), Null, Undef}

VariantBodies ==
    {Body(userid, Str(food), Str(<<"a">>), Num(5), Undef) :
        userid \in VariantUserids}
    \cup {Body(Str(IdEnding(<<"2">>)), category, Str(<<"a">>), Num(5), Str(Feb01)) :
            category \in {Str(sport), Str(toys), Undef}}
    \cup {Body(Str(IdEnding(<<"2">>)), Str(food), description, Num(5), Undef) :
            description \in {Str(<<" ", "a", " ">>), Str(<<" ">>), Str(<<>>),
                             Num(5), Undef, Str(LongDescription)}}
    \cup {Body(Str(IdEnding(<<"2">>)), Str(food), Str(<<"a">>), sum, Undef) :
            sum \in {Num(-5), Str(<<"5", "a", "b">>), Str(<<"a", "b">>), Undef}}

(***************************************************************************)
(* The system                                                              *)
(***************************************************************************)
\* The add requests that can be in progress together: as many as the
\* collection can take.
Requests == 1..MaxCosts

\* A request number not in use.
Idle == [pc |-> "idle"]

Init ==
    /\ users = Users
    /\ costs = <<>>
    /\ now = ClockStart
    /\ tzOffset \in TzOffsets
    /\ response = NoResponse
    /\ storeCalls = <<>>
    /\ inflight = [r \in Requests |-> Idle]

\* A handler whose save replaces the collection.
HandledReplacing(out) ==
    /\ out.saved = <<>> \/ Len(costs) < MaxCosts
    /\ costs' = IF out.saved = <<>> THEN costs ELSE out.saved
    /\ response' = out.res
    /\ storeCalls' = out.calls

\* The handler's effect: the documents it saved join the collection (which
\* holds at most MaxCosts), its response goes to the client.
Handled(out) ==
    /\ out.saved = <<>> \/ Len(costs) < MaxCosts
    /\ costs' = costs \o out.saved
    /\ response' = out.res
    /\ storeCalls' = out.calls

\* POST /api/add creating the user it did not find.
AddCostCreatingUser(body) ==
    /\ response = NoResponse
    /\ Handled(AddOutcome(users, body, now, tzOffset))
    /\ users' = IF response'.status = 404
                THEN users \cup {[id |-> 3, first_name |-> "New",
                                  last_name |-> "User",
                                  _id |-> IdEnding(<<"3">>)]}
                ELSE users
    /\ UNCHANGED <<now, tzOffset, inflight>>

\* POST /api/add
AddCost(body) ==
    /\ response = NoResponse
    /\ Handled(AddOutcome(users, body, now, tzOffset))
    /\ UNCHANGED <<users, now, tzOffset, inflight>>

\* A report that empties the collection it read.
GetReportClearing(query) ==
    /\ response = NoResponse
    /\ response' = ReportOutcome(users, costs, query, tzOffset).res
    /\ storeCalls' = ReportOutcome(users, costs, query, tzOffset).calls
    /\ costs' = <<>>
    /\ UNCHANGED <<users, now, tzOffset, inflight>>

\* GET /api/report
GetReport(query) ==
    /\ response = NoResponse
    /\ Handled(ReportOutcome(users, costs, query, tzOffset))
    /\ UNCHANGED <<users, now, tzOffset, inflight>>

\* GET /api/users/:id
GetUser(param) ==
    /\ response = NoResponse
    /\ Handled(UserOutcome(users, costs, param))
    /\ UNCHANGED <<users, now, tzOffset, inflight>>

\* GET /api/about
GetAbout ==
    /\ response = NoResponse
    /\ Handled(Outcome(Success("about", Undef, 200, team), <<>>, <<>>))
    /\ UNCHANGED <<users, now, tzOffset, inflight>>

\* The client reads the response; it sends its next request after that.
ClientReceive ==
    /\ response # NoResponse
    /\ response' = NoResponse
    /\ storeCalls' = <<>>
    /\ UNCHANGED <<users, costs, now, tzOffset, inflight>>

\* A millisecond passes.
Tick ==
    /\ response = NoResponse
    /\ Before(now, AddMs(ClockStart, MaxTicks))
    /\ now' = AddMs(now, 1)
    /\ UNCHANGED <<users, costs, tzOffset, response, storeCalls, inflight>>

Next ==
    \/ \E body \in AddBodies : AddCost(body)
    \/ \E query \in ReportQueries : GetReport(query)
    \/ \E param \in UserParams : GetUser(param)
    \/ GetAbout
    \/ ClientReceive
    \/ Tick

Spec == Init /\ [][Next]_vars

\* POST /add of routes/index.js
AddCostVariant(body) ==
    /\ response = NoResponse
    /\ Handled(VariantOutcome(users, body, now, tzOffset))
    /\ UNCHANGED <<users, now, tzOffset, inflight>>

\* The server with the routes of routes/index.js.
NextIndex ==
    \/ \E body \in VariantBodies : AddCostVariant(body)
    \/ ClientReceive
    \/ Tick

SpecIndex == Init /\ [][NextIndex]_vars

(***************************************************************************)
(* Properties                                                              *)
(***************************************************************************)
AddResponded == response.op = "add"

ReportOk == response.op = "report" /\ response.status = 200

UserOk == response.op = "user" /\ response.status = 200

\* The value v names user u: its numeric value is the user's id.
Identifies(v, u) == ToNumber(v) = Num(u.id)

Saved == \E k \in 1..Len(storeCalls) : storeCalls[k].call = "Cost.save"

\* The report's buckets and the numbers it echoes.
Buckets == response.data.costs

Keys == [b \in 1..Len(Buckets) |-> Buckets[b].key]

\* The stored costs of user u dated within [start, end].
InWindow(u, start, end) ==
    {i \in 1..Len(costs) :
        /\ costs[i].userid = Num(u)
        /\ costs[i].date # Null
        /\ ~Before(costs[i].date, start)
        /\ ~Before(end, costs[i].date)}

\* The stored costs the report in response was asked for.
Reported ==
    InWindow(response.data.userid,
             startDate(response.data.year, response.data.month),
             endDate(response.data.year, response.data.month))

SameItem(item, cost) ==
    item.sum = cost.sum.n /\ item.description = cost.description.s

RECURSIVE SumOver(_)
SumOver(S) ==
    IF S = {} THEN 0
    ELSE LET i == CHOOSE j \in S : TRUE
         IN  costs[i].sum.n + SumOver(S \ {i})

RECURSIVE SumItems(_)
SumItems(items) ==
    IF items = <<>> THEN 0 ELSE Head(items).sum + SumItems(Tail(items))

RECURSIVE AllItems(_)
AllItems(bs) ==
    IF bs = <<>> THEN <<>> ELSE Head(bs).items \o AllItems(Tail(bs))

\* C1: an add-cost request whose userid names no existing user fails with
\* 404 User Not Found, whatever its other fields are, and saves no Cost.
C1_UnknownUserIsNotFound ==
    (AddResponded /\ \A u \in users : ~Identifies(response.req.userid, u))
        => /\ response.status = 404
           /\ response.error = "User Not Found"
           /\ ~Saved

\* C2: every add-cost request either reports success (201) and has
\* inserted exactly one Cost, or reports a failure and has inserted none.
C2_AddIsAllOrNothing ==
    [][(response.op = "none" /\ response'.op = "add")
         => IF response'.status = 201
            THEN /\ Len(costs') = Len(costs) + 1
                 /\ SubSeq(costs', 1, Len(costs)) = costs
            ELSE costs' = costs]_vars

\* C3: every stored Cost's userid is the id of a user of the store, whatever
\* form (number or numeral) the request's userid had.
C3_OwnerExists ==
    \A i \in 1..Len(costs) : \E u \in users : costs[i].userid = Num(u.id)

\* C4: a successful report has exactly five buckets, keyed food, education,
\* health, housing, sport in this order, whatever costs are stored.
C4_FiveBucketsInOrder ==
    ReportOk => Keys = <<food, education, health, housing, sport>>

C4_Witness ==
    /\ ReportOk
    /\ Len(costs) > 0
    /\ \A b \in 1..Len(Buckets) : Buckets[b].items = <<>>

\* C5: in a successful report, every stored Cost of the user dated within
\* the month window appears in exactly one bucket exactly once: as many items
\* as such Costs, with the same total, and each Cost as often among the items
\* of its category as among the stored Costs.
C5_NothingDroppedNorDuplicated ==
    ReportOk =>
        /\ Len(AllItems(Buckets)) = Cardinality(Reported)
        /\ SumItems(AllItems(Buckets)) = SumOver(Reported)
        /\ \A i \in Reported :
             Cardinality({<<b, k>> \in (1..Len(Buckets)) \X (1..Len(costs)) :
                            /\ k <= Len(Buckets[b].items)
                            /\ SameItem(Buckets[b].items[k], costs[i])
                            /\ Str(Buckets[b].key) = costs[i].category})
                = Cardinality({j \in Reported :
                                 /\ costs[j].category = costs[i].category
                                 /\ costs[j].sum = costs[i].sum
                                 /\ costs[j].description = costs[i].description})

C5_Witness ==
    /\ ReportOk
    /\ Cardinality(Reported) = 2
    /\ \E i, j \in Reported : costs[i].category # costs[j].category

\* C6: a report for (u, year, month) holds an item for a stored Cost exactly
\* when the Cost's userid is u and start <= date <= end, both ends included:
\* each bucket holds as many items as there are such Costs of its category,
\* every item is one of them and every one of them is an item.
C6_ItemsAreTheWindowCosts ==
    ReportOk =>
        \A b \in 1..Len(Buckets) :
            LET items == Buckets[b].items
                M == {i \in Reported : costs[i].category = Str(Buckets[b].key)}
            IN  /\ Len(items) = Cardinality(M)
                /\ \A k \in 1..Len(items) : \E i \in M : SameItem(items[k], costs[i])
                /\ \A i \in M : \E k \in 1..Len(items) : SameItem(items[k], costs[i])

C6_Witness ==
    /\ ReportOk
    /\ Len(AllItems(Buckets)) = 1
    /\ \E i \in 1..Len(costs) : costs[i].userid # Num(response.data.userid)
    /\ \E i \in Reported :
          \/ costs[i].date = startDate(response.data.year, response.data.month)
          \/ costs[i].date = endDate(response.data.year, response.data.month)

\* The day number of the first day of month m of calendar year y.
FirstDayOfMonth(y, m) == DayFromYear(y) + DaysBeforeMonth(y, m)

\* C7: for every accepted (year, month), the window sent to the store starts
\* at day 1, 00:00:00.000 UTC of that month of that calendar year and ends at
\* 23:59:59.999 UTC of its last day (28, 29, 30 or 31).
C7_WindowIsTheCalendarMonth ==
    ReportOk =>
        \E k \in 1..Len(storeCalls) :
            /\ storeCalls[k].call = "Cost.find"
            /\ storeCalls[k].arg.gte =
                 Instant(FirstDayOfMonth(response.data.year, response.data.month), 0)
            /\ storeCalls[k].arg.lte =
                 Instant(FirstDayOfMonth(response.data.year, response.data.month)
                           + DaysInMonth(response.data.year, response.data.month) - 1,
                         MsPerDay - 1)

\* C8: the day of every report item is the UTC day of the month of its
\* Cost's date, hence between 1 and the number of days of the report's month,
\* whatever the server's time zone.
C8_DayIsTheUtcDayOfMonth ==
    ReportOk =>
        \A b \in 1..Len(Buckets) : \A k \in 1..Len(Buckets[b].items) :
            /\ Buckets[b].items[k].day >= 1
            /\ Buckets[b].items[k].day
                 <= DaysInMonth(response.data.year, response.data.month)
            /\ \E i \in Reported :
                 /\ costs[i].category = Str(Buckets[b].key)
                 /\ SameItem(Buckets[b].items[k], costs[i])
                 /\ Buckets[b].items[k].day = GetUTCDate(costs[i].date)

\* A Cost dated before the server started was added with a supplied date.
DateWasSupplied(cost) == cost.date # Null /\ Before(cost.date, ClockStart)

\* C9: once a Cost was added for user u with category c, sum s, description
\* d and a supplied date t, every later report for u and the year and month
\* of t holds, in bucket c, the item {sum: s, description: d trimmed, day: day
\* of the month of t}.
C9_AddedCostIsReported ==
    ReportOk =>
        \A i \in 1..Len(costs) :
            (/\ DateWasSupplied(costs[i])
             /\ costs[i].userid = Num(response.data.userid)
             /\ YearFromDay(costs[i].date.day) = response.data.year
             /\ MonthFromDay(costs[i].date.day) = response.data.month)
            => \E b \in 1..Len(Buckets) :
                 /\ Str(Buckets[b].key) = costs[i].category
                 /\ \E k \in 1..Len(Buckets[b].items) :
                      Buckets[b].items[k] =
                        [sum |-> costs[i].sum.n,
                         description |-> costs[i].description.s,
                         day |-> GetUTCDate(costs[i].date)]

\* C10: the total of a user summary is the sum of the sum fields of the
\* stored Costs whose userid is the user's id, signs included, 0 when there
\* is none; other users' Costs do not count.
C10_TotalIsTheUsersSum ==
    UserOk =>
        response.data.total =
            SumOver({i \in 1..Len(costs) : costs[i].userid = Num(response.data.id)})

C10_Witness ==
    /\ UserOk
    /\ response.data.total < 0
    /\ \E i \in 1..Len(costs) :
          costs[i].userid # Num(response.data.id) /\ costs[i].sum.n > 0

UserResponded == response.op = "user"

ReportResponded == response.op = "report"

Failed(status, error) ==
    /\ response.status = status
    /\ response.error = error
    /\ response.data = Null

\* The users the request value v names.
Named(v) == {u \in users : Identifies(v, u)}

\* C11: a user summary for an id that names no user fails with 404 User Not
\* Found and carries no total; for an existing user it returns that user's
\* stored id, first_name and last_name.
C11_SummaryKnowsItsUser ==
    UserResponded =>
        IF Named(response.req) = {}
        THEN Failed(404, "User Not Found")
        ELSE /\ response.status = 200
             /\ \E u \in Named(response.req) :
                  /\ response.data.id = u.id
                  /\ response.data.first_name = u.first_name
                  /\ response.data.last_name = u.last_name

\* The month a query text spells is a number of 1..12.
MonthInRange(month) == ParseInt(month).n >= 1 /\ ParseInt(month).n <= 12

ReportForKnownUser ==
    /\ ReportResponded
    /\ AllDigits(response.req.id)
    /\ Named(response.req.id) # {}

\* C13, as stated: a report request with month "13" fails with Invalid
\* Month for every value of year, well-formed or not.
C13_Month13IsInvalidMonth ==
    (ReportForKnownUser /\ response.req.month = Str(<<"1", "3">>))
        => Failed(400, "Invalid Month")

\* C13, amended: a report request with month "13" fails with Invalid Month
\* for every year that is all digits; a year that is not comes first.
C13_Month13AfterYearFormat ==
    (ReportForKnownUser /\ response.req.month = Str(<<"1", "3">>))
        => IF AllDigits(response.req.year)
           THEN Failed(400, "Invalid Month")
           ELSE Failed(400, "Invalid Year Format")

C13_Witness ==
    /\ ReportForKnownUser
    /\ response.req.month = Str(<<"1", "3">>)
    /\ response.req.year = Str(<<"2", "0", "2", "4">>)
    /\ Failed(400, "Invalid Month")

\* C14: for an existing user and a year of digits, a report request is
\* rejected with 400 and no report when month is missing or not all digits
\* (Invalid Month Format) or spells a number outside 1..12 (Invalid Month),
\* and it is accepted exactly when month spells a number of 1..12.
C14_MonthDecidesAcceptance ==
    (ReportForKnownUser /\ AllDigits(response.req.year)) =>
        IF ~AllDigits(response.req.month)
        THEN Failed(400, "Invalid Month Format")
        ELSE IF ~MonthInRange(response.req.month)
        THEN Failed(400, "Invalid Month")
        ELSE ReportOk

AddForKnownUser == AddResponded /\ Named(response.req.userid) # {}

Taxonomy == {Str(food), Str(health), Str(housing), Str(sport), Str(education)}

\* C17: an add-cost request for an existing user whose category is none of
\* food, health, housing, sport, education (a missing or empty one included)
\* fails with the error Invalid Category, and no Cost is saved.
C17_BadCategoryIsInvalidCategory ==
    (AddForKnownUser /\ response.req.category \notin Taxonomy)
        => Failed(400, "Invalid Category") /\ ~Saved

\* A description the claim accepts: text of 1..100 characters once trimmed.
DescriptionFits(v) ==
    /\ v.t = "str"
    /\ Len(Trim(v.s)) >= 1
    /\ Len(Trim(v.s)) <= DescriptionMax

\* C18: an add-cost request for an existing user whose description, once
\* trimmed, is empty or longer than 100 characters fails with Invalid
\* Description and saves no Cost, so every stored Cost's description has a
\* trimmed length of 1..100.
C18_DescriptionLengthIsChecked ==
    /\ (AddForKnownUser /\ ~DescriptionFits(response.req.description))
         => Failed(400, "Invalid Description") /\ ~Saved
    /\ \A i \in 1..Len(costs) : DescriptionFits(costs[i].description)

\* A number, or the text of a number.
IsNumeric(v) ==
    \/ v.t = "num"
    \/ v.t = "str" /\ Trim(v.s) # <<>> /\ StringToNumber(v.s) # NaN

\* C19: an add-cost request for an existing user whose sum is missing or
\* not numeric fails with 400 Failed To Add Cost Item, its message naming
\* sum, and saves no Cost; the sum of a Cost that was saved is the numeric
\* value of the request's sum.
C19_SumMustBeNumeric ==
    AddForKnownUser =>
        /\ ~IsNumeric(response.req.sum)
             => /\ Failed(400, "Failed To Add Cost Item")
                /\ "sum" \in response.paths
                /\ ~Saved
        /\ response.status = 201
             => response.data.sum = ToNumber(response.req.sum)

\* The fields of a body other than sum are valid.
OtherwiseValid(body) ==
    /\ body.category \in Taxonomy
    /\ body.description.t = "str" /\ Trim(body.description.s) # <<>>
    /\ \/ body.date = Undef
       \/ body.date.t = "str" /\ IsValidDate(ParseDate(body.date.s, tzOffset))

Feb01Local == <<"2", "0", "2", "4", "-", "0", "2", "-", "0", "1", "T",
                "0", "0", ":", "0", "0", ":", "0", "0", ".", "0", "0", "0">>

\* The dates a body can carry: a day, an instant in UTC, an instant in local
\* time, a text that is no date, the empty text, and none.
DateInputs ==
    {Str(Feb01), Str(Jan31End), Str(Feb01Local), Str(<<"a", "b">>), Str(<<>>),
     Undef}

DateBodies ==
    {Body(u, Str(food), Str(<<"a">>), Num(5), t) :
        u \in {Num(2), Num(3)}, t \in DateInputs}

NextDates ==
    \/ \E body \in DateBodies : AddCost(body)
    \/ ClientReceive
    \/ Tick

SpecDates == Init /\ [][NextDates]_vars

(***************************************************************************)
(* Reports while the store fails                                           *)
(***************************************************************************)
\* The positions of the calls to a store operation among those a handler
\* issues.
CallAt(calls, call) == {k \in 1..Len(calls) : calls[k].call = call}

FirstCallAt(calls, call) ==
    CHOOSE k \in CallAt(calls, call) : \A j \in CallAt(calls, call) : k <= j

\* A find whose rejection is swallowed: the report goes on with no costs.
RejectedAsEmpty(out, call) ==
    IF CallAt(out.calls, call) = {} THEN out
    ELSE IF call = "Cost.find"
    THEN Outcome(Success("report", out.res.req, 200,
                     ReportBody(<<>>, out.res.data.userid, out.res.data.year,
                                out.res.data.month, 0)),
                 out.calls \o <<StoreCall("rejected", call)>>, <<>>)
    ELSE ReportFailure(out.res.req, 500, "Failed To Generate Report", {},
                       SubSeq(out.calls, 1, FirstCallAt(out.calls, call))
                           \o <<StoreCall("rejected", call)>>)

\* The report handler when the store rejects its call `call`: the await
\* throws, the handler stops there and the catch block answers 500. A
\* handler that never issues the call is not affected.
Rejected(out, call) ==
    IF CallAt(out.calls, call) = {} THEN out
    ELSE ReportFailure(out.res.req, 500, "Failed To Generate Report", {},
                       SubSeq(out.calls, 1, FirstCallAt(out.calls, call))
                           \o <<StoreCall("rejected", call)>>)

\* GET /api/report while the store rejects one of the handler's calls.
GetReportRejected(query, call) ==
    /\ response = NoResponse
    /\ CallAt(ReportOutcome(users, costs, query, tzOffset).calls, call) # {}
    /\ Handled(Rejected(ReportOutcome(users, costs, query, tzOffset), call))
    /\ UNCHANGED <<users, now, tzOffset, inflight>>

\* Reports for a user with costs, a user without, an unknown user and a bad
\* id, in months with and without costs, and with a bad year or month.
FewQueries ==
    {Query(id, Str(<<"2", "0", "2", "4">>), m) :
        id \in {Str(<<"2">>), Str(<<"1", "0">>), Str(<<"3">>), Str(<<"a", "b">>)},
        m \in {Str(<<"1">>), Str(<<"2">>), Str(<<"1", "3">>)}}
    \cup {Query(Str(<<"2">>), Str(<<"2", "a">>), Str(<<"2">>))}

NextFaults ==
    \/ \E body \in GoodBodies : AddCost(body)
    \/ \E query \in FewQueries : GetReport(query)
    \/ \E query \in FewQueries, call \in {"User.findOne", "Cost.find"} :
          GetReportRejected(query, call)
    \/ ClientReceive

SpecFaults == Init /\ [][NextFaults]_vars

(***************************************************************************)
(* Repeated reports                                                        *)
(***************************************************************************)
\* The client, holding the response to a report, sends the same request
\* again, at once or a millisecond later.
GetReportAgain ==
    /\ response.op = "report"
    /\ Handled(ReportOutcome(users, costs, response.req, tzOffset))
    /\ \/ now' = now
       \/ /\ Before(now, AddMs(ClockStart, MaxTicks))
          /\ now' = AddMs(now, 1)
    /\ UNCHANGED <<users, tzOffset, inflight>>

NextRepeat ==
    \/ \E body \in GoodBodies : AddCost(body)
    \/ \E query \in FewQueries : GetReport(query)
    \/ GetReportAgain
    \/ \E param \in UserParams : GetUser(param)
    \/ GetAbout
    \/ ClientReceive
    \/ Tick

SpecRepeat == Init /\ [][NextRepeat]_vars

(***************************************************************************)
(* POST /api/add step by step, several requests in progress                *)
(***************************************************************************)
\* The bodies of the requests in progress: two different costs of user 2,
\* one of them without a date, a cost of an unknown user and a cost with an
\* unknown category.
StepBodies ==
    {Body(Num(2), Str(food), Str(<<"a">>), Num(5), Str(Feb01)),
     Body(Num(2), Str(sport), Str(<<" ", "a", " ">>), Num(-5), Undef),
     Body(Num(3), Str(food), Str(<<"a">>), Num(5), Undef),
     Body(Num(2), Str(toys), Str(<<"a">>), Num(5), Undef)}

\* The client notes its clock and sends request r; requests are numbered in
\* the order they are sent.
Send(r, body) ==
    /\ inflight[r].pc = "idle"
    /\ \A j \in 1..(r - 1) : inflight[j].pc # "idle"
    /\ inflight' = [inflight EXCEPT ![r] =
                       [pc |-> "sent", body |-> body, before |-> now,
                        cost |-> Null, res |-> NoResponse, after |-> Null]]
    /\ UNCHANGED <<users, costs, now, tzOffset, response, storeCalls>>

\* A handler that reads the body of the request received last.
LatestBody(reqs, r) ==
    reqs[CHOOSE k \in DOMAIN reqs :
            /\ reqs[k].pc # "idle"
            /\ \A j \in DOMAIN reqs : reqs[j].pc # "idle" => j <= k].body

\* const { description, category, userid, sum, date } = req.body
BodyOf(reqs, r) == reqs[r].body

\* The request after User.findOne({ id: userid }) has resolved.
Looked(req, us, q) ==
    IF IsCastError(q)
    THEN [req EXCEPT !.pc = "responded",
                     !.res = Failure("add", req.body, 400,
                                     "Failed To Add Cost Item", {"id"})]
    ELSE IF FindUser(us, q) = {}
    THEN [req EXCEPT !.pc = "responded",
                     !.res = Failure("add", req.body, 404, "User Not Found", {})]
    ELSE [req EXCEPT !.pc = "found"]

\* const userExists = await User.findOne({ id: userid })
StepLookup(r) ==
    /\ inflight[r].pc = "sent"
    /\ inflight' = [inflight EXCEPT ![r] =
                       Looked(inflight[r], users,
                              CastNumber(BodyOf(inflight, r).userid))]
    /\ UNCHANGED <<users, costs, now, tzOffset, response, storeCalls>>

\* { description, category, userid: parseInt(userid), sum: parseFloat(sum),
\*   date }
CostFields(body) ==
    [description |-> body.description,
     category |-> body.category,
     userid |-> ParseInt(body.userid),
     sum |-> ParseFloat(body.sum),
     date |-> body.date]

\* const cost = new Cost({ ... })
StepBuild(r) ==
    /\ inflight[r].pc = "found"
    /\ inflight' = [inflight EXCEPT ![r] =
                       [@ EXCEPT !.pc = "built",
                                 !.cost = NewCost(CostFields(BodyOf(inflight, r)),
                                                  now, tzOffset)]]
    /\ UNCHANGED <<users, costs, now, tzOffset, response, storeCalls>>

StepSaved(r, out) ==
    /\ costs' = costs \o out.saved
    /\ inflight' = [inflight EXCEPT ![r] =
                       [@ EXCEPT !.pc = "responded", !.res = out.res]]

\* await cost.save(), then res.status(201).json(cost) or the catch block.
StepSave(r) ==
    /\ inflight[r].pc = "built"
    /\ StepSaved(r, AddValidate(inflight[r].body,
                                CastNumber(inflight[r].body.userid),
                                inflight[r].cost))
    /\ UNCHANGED <<users, now, tzOffset, response, storeCalls>>

\* The client gets the response of request r and notes its clock.
Receive(r) ==
    /\ inflight[r].pc = "responded"
    /\ inflight' = [inflight EXCEPT ![r] =
                       [@ EXCEPT !.pc = "done", !.after = now]]
    /\ UNCHANGED <<users, costs, now, tzOffset, response, storeCalls>>

InitSteps == Init /\ tzOffset = 0

NextSteps ==
    \/ \E r \in Requests, body \in StepBodies : Send(r, body)
    \/ \E r \in Requests : StepLookup(r)
    \/ \E r \in Requests : StepBuild(r)
    \/ \E r \in Requests : StepSave(r)
    \/ \E r \in Requests : Receive(r)
    \/ Tick

SpecSteps == InitSteps /\ [][NextSteps]_vars

\* The text of a supplied date spells a valid calendar date.
DateParses(v) == v.t = "str" /\ IsValidDate(ParseDate(v.s, tzOffset))

\* C21: when an add-cost request supplies a date that parses, the Cost
\* saved and returned carries exactly that instant, not the time of the
\* request; when the supplied date does not parse, the request fails with 400
\* Failed To Add Cost Item, its message naming date, and nothing is saved.
C21_SuppliedDateIsKeptOrRefused ==
    (AddForKnownUser /\ response.req.date # Undef) =>
        IF DateParses(response.req.date)
        THEN response.status = 201
                => /\ response.data.date = ParseDate(response.req.date.s, tzOffset)
                   /\ costs[Len(costs)].date = response.data.date
        ELSE /\ Failed(400, "Failed To Add Cost Item")
             /\ "date" \in response.paths
             /\ ~Saved

\* Request r has been answered and its client has the response.
Done(r) == inflight[r].pc = "done"

\* C22: when an add-cost request carries no date, the date of the saved
\* Cost is an instant between the client's clock just before it sent the
\* request and its clock just after it got the response.
C22_DefaultDateIsBetweenClocks ==
    \A r \in Requests :
        (/\ Done(r)
         /\ inflight[r].body.date = Undef
         /\ inflight[r].res.status = 201) =>
            /\ AtOrBefore(inflight[r].before, inflight[r].res.data.date)
            /\ AtOrBefore(inflight[r].res.data.date, inflight[r].after)
            /\ \E i \in 1..Len(costs) : costs[i] = inflight[r].res.data

C22_Witness ==
    \E r \in Requests :
        /\ Done(r)
        /\ inflight[r].body.date = Undef
        /\ inflight[r].res.status = 201
        /\ Before(inflight[r].before, inflight[r].after)

\* C23: no operation of the API creates, modifies or deletes a user: the
\* users after any step are the users before it.
C23_UsersNeverChange == [][users' = users]_vars

C23_Witness ==
    /\ AddResponded /\ response.status = 201
    /\ Len(costs) >= 2
    /\ users = Users

\* C24: the costs are append-only: a step that changes the collection is a
\* successful add-cost, and it adds exactly one record behind the existing
\* ones, which stay as they were.
C24_CostsAreAppendOnly ==
    [][costs' # costs
         => /\ response'.op = "add" /\ response'.status = 201
            /\ Len(costs') = Len(costs) + 1
            /\ SubSeq(costs', 1, Len(costs)) = costs
            /\ costs'[Len(costs')] = response'.data]_vars

C24_Witness ==
    /\ UserOk
    /\ Len(costs) >= 2
    /\ costs[1] # costs[2]

\* The store rejected a call of the request that was answered.
StoreRejected ==
    \E k \in 1..Len(storeCalls) : storeCalls[k].call = "rejected"

\* C25: when the store fails during a report request, the answer is 500
\* Failed To Generate Report and carries no report, neither with empty nor
\* with partial buckets.
C25_StoreFailureIsInternalError ==
    (ReportResponded /\ StoreRejected) =>
        Failed(500, "Failed To Generate Report")

C25_Witness ==
    /\ ReportResponded
    /\ StoreRejected
    /\ storeCalls[Len(storeCalls)] = StoreCall("rejected", "Cost.find")
    /\ response.status = 500
    /\ 1 \in InWindow(2, startDate(2024, 2), endDate(2024, 2))

\* Request r has its response.
Answered(r) == inflight[r].pc \in {"responded", "done"}

Accepted == {r \in Requests : Answered(r) /\ inflight[r].res.status = 201}

\* A body that is valid for a user of the store.
ValidBody(body) ==
    /\ Named(body.userid) # {}
    /\ body.category \in Taxonomy
    /\ body.description.t = "str" /\ Trim(body.description.s) # <<>>
    /\ body.sum.t = "num"
    /\ body.date = Undef \/ DateParses(body.date)

\* The cost carries the values of the body.
OwnValues(cost, body) ==
    /\ cost.userid = ToNumber(body.userid)
    /\ cost.category = body.category
    /\ cost.description = Str(Trim(body.description.s))
    /\ cost.sum = body.sum
    /\ body.date # Undef => cost.date = ParseDate(body.date.s, tzOffset)

\* C26: however the store calls of add-cost requests in progress together
\* interleave, every valid request for an existing user succeeds with a Cost
\* of its own values, and the collection holds exactly one record for each
\* accepted request, the one that request was answered with.
C26_ConcurrentAddsAreIndependent ==
    /\ \A r \in Requests :
          (Answered(r) /\ ValidBody(inflight[r].body)) =>
              /\ inflight[r].res.status = 201
              /\ OwnValues(inflight[r].res.data, inflight[r].body)
    /\ \E p \in [1..Len(costs) -> Accepted] :
          /\ \A i, j \in 1..Len(costs) : p[i] = p[j] => i = j
          /\ \A r \in Accepted : \E i \in 1..Len(costs) : p[i] = r
          /\ \A i \in 1..Len(costs) : costs[i] = inflight[p[i]].res.data

C26_Witness ==
    /\ Done(1) /\ Done(2)
    /\ Len(costs) = 2
    /\ costs[1] = inflight[2].res.data
    /\ costs[2] = inflight[1].res.data
    /\ costs[1] # costs[2]
    /\ inflight[1].body.userid = inflight[2].body.userid

\* C27: a report request for an existing user with a year of digits and a
\* month of digits within 1..12 succeeds, with neither a 400 nor a 500, and
\* echoes userid, year and month as the numbers the request spelled.
C27_DigitYearAndMonthSucceed ==
    (/\ ReportForKnownUser
     /\ AllDigits(response.req.year)
     /\ AllDigits(response.req.month)
     /\ MonthInRange(response.req.month)) =>
        /\ ReportOk
        /\ Num(response.data.userid) = ToNumber(response.req.id)
        /\ Num(response.data.year) = ToNumber(response.req.year)
        /\ Num(response.data.month) = ToNumber(response.req.month)

\* The k-th smallest member of a set of positions.
Nth(S, k) == CHOOSE i \in S : Cardinality({j \in S : j <= i}) = k

\* The stored costs of the report's window that belong to bucket b.
ReportedIn(b) == {i \in Reported : costs[i].category = Str(Buckets[b].key)}

\* C28: within a bucket of a report the items keep the order in which the
\* store returned the costs: the k-th item is the k-th of the bucket's costs
\* in store order.
C28_BucketKeepsStoreOrder ==
    ReportOk =>
        \A b \in 1..Len(Buckets) :
            /\ Len(Buckets[b].items) = Cardinality(ReportedIn(b))
            /\ \A k \in 1..Len(Buckets[b].items) :
                  SameItem(Buckets[b].items[k], costs[Nth(ReportedIn(b), k)])

C28_Witness ==
    /\ ReportOk
    /\ \E b \in 1..Len(Buckets) :
          /\ Len(Buckets[b].items) = 2
          /\ Buckets[b].items[1] # Buckets[b].items[2]

\* C29: report, user summary and about leave users and costs as they were,
\* and a report request repeated with no add-cost in between gets the
\* response it got before.
C29_ReadsChangeNothingAndRepeat ==
    [][/\ response'.op \in {"report", "user", "about"}
            => users' = users /\ costs' = costs
       /\ (/\ response.op = "report"
           /\ response'.op = "report"
           /\ response'.req = response.req)
            => response' = response]_vars

C29_Witness ==
    /\ ReportOk
    /\ now # ClockStart
    /\ \E b \in 1..Len(Buckets) : Buckets[b].items # <<>>

\* The keys under which a report groups costs.
BucketKeys == {Str(categories[i]) : i \in 1..Len(categories)}

\* C30: every stored cost has a category that is one of the report's bucket
\* keys, an accepted add-cost has such a category, and the categories the
\* schema accepts are exactly the bucket keys.
C30_StoredCategoryHasABucket ==
    /\ \A i \in 1..Len(costs) : costs[i].category \in BucketKeys
    /\ (AddResponded /\ response.status = 201)
          => response.req.category \in BucketKeys
    /\ {Str(CategoryEnum[i]) : i \in 1..Len(CategoryEnum)} = BucketKeys

C30_Witness ==
    /\ ReportOk
    /\ Len(costs) >= 2
    /\ costs[1].category # costs[2].category
    /\ \E b \in 1..Len(Buckets) : Buckets[b].items # <<>>

====
